---------------------------- MODULE Spec2Model ----------------------------
(***************************************************************************)
(* Bencode codec of src/src/lib.rs: parse (bytes -> BData) and stringify   *)
(* (BData -> bytes).  Bytes are the integers 0..255.  A BData value is a   *)
(* record tagged "BString" (b), "Number" (n), "List" (l) or "Dict" (d); a  *)
(* BTreeMap<String, BData> is the sequence of its entries [k, v] in        *)
(* ascending key order, which is the order its iterator yields.            *)
(***************************************************************************)
EXTENDS Integers, Sequences, FiniteSets, TLC

VARIABLES
    overflow_checks, \* build profile: TRUE = arithmetic overflow panics (debug)
    kind,            \* how the input was produced: "raw", "doc", "prefix", "value"
    doc,             \* the document tree the input was written from (or NoDoc)
    tail,            \* the bytes appended after the document
    data,            \* the BData handed to stringify first (or NoData)
    enc,             \* stringify(data)
    src,             \* the bytes handed to parse
    res,             \* parse(src)
    cur,             \* position of parse's cursor when it returned
    enc2,            \* stringify of the parsed value
    pc

vars == <<overflow_checks, kind, doc, tail, data, enc, src, res, cur, enc2, pc>>

----------------------------------------------------------------------------
(* Byte literals matched by the parser.                                     *)
B_0 == 48
B_9 == 57
B_colon == 58
B_i == 105
B_l == 108
B_d == 100
B_e == 101
B_plus == 43
B_minus == 45

IsDigit(c) == c >= B_0 /\ c <= B_9

(* i32::MIN and i32::MAX. *)
I32_MAX == 2147483647
I32_MIN == -2147483647 - 1

(* usize is a 64-bit word, kept as UsizeLimbs limbs of LimbBase, least      *)
(* significant first.                                                      *)
LimbBase == 65536
UsizeLimbs == 4

UsizeZero == [j \in 1..UsizeLimbs |-> 0]

RECURSIVE MulAddCarry(_, _, _)
(* Carry chain of len * 10 + carry from limb j upwards: <<limbs, carry-out>> *)
MulAddCarry(len, j, carry) ==
    IF j > UsizeLimbs THEN <<len, carry>>
    ELSE LET t == len[j] * 10 + carry
         IN  MulAddCarry([len EXCEPT ![j] = t % LimbBase], j + 1, t \div LimbBase)

(* len * 10 + digit on usize: the wrapped word and whether it overflowed.   *)
UsizeMulAdd(len, digit) ==
    LET r == MulAddCarry(len, 1, digit)
    IN  [word |-> r[1], overflow |-> r[2] > 0]

(* i < len for a small natural i and a usize len.                           *)
UsizeLess(i, len) ==
    \/ \E j \in 2..UsizeLimbs : len[j] > 0
    \/ i < len[1]

----------------------------------------------------------------------------
(* BData constructors and parse results.                                    *)
BString(b) == [tag |-> "BString", b |-> b]
Number(n) == [tag |-> "Number", n |-> n]
List(l) == [tag |-> "List", l |-> l]
Dict(d) == [tag |-> "Dict", d |-> d]

NoVal == [tag |-> "None"]

Ok(v, p) == [st |-> "Ok", val |-> v, err |-> "", pos |-> p]
Err(e) == [st |-> e, val |-> NoVal, err |-> "", pos |-> 0]
ParseFailure(e) == [st |-> "ParseFailure", val |-> NoVal, err |-> e, pos |-> 0]
(* Arithmetic overflow with overflow checks on: the thread panics.          *)
Panic == [st |-> "Panic", val |-> NoVal, err |-> "", pos |-> 0]

(* Peekable<Iter<u8>> at position p of s: the next byte, or NoByte at end.  *)
NoByte == -1
Peek(s, p) == IF p <= Len(s) THEN s[p] ELSE NoByte

----------------------------------------------------------------------------
(* str::parse::<i32>: optional single leading sign, then one or more        *)
(* digits, accumulated with checked multiplication and addition.           *)
RECURSIVE ParseDigitsI32(_, _, _, _)
ParseDigitsI32(t, j, positive, result) ==
    IF j > Len(t) THEN [ok |-> TRUE, n |-> result, err |-> ""]
    ELSE IF ~IsDigit(t[j]) THEN [ok |-> FALSE, n |-> 0, err |-> "InvalidDigit"]
    ELSE LET x == t[j] - B_0
         IN  IF positive
             THEN IF result > I32_MAX \div 10 \/ result * 10 > I32_MAX - x
                  THEN [ok |-> FALSE, n |-> 0, err |-> "PosOverflow"]
                  ELSE ParseDigitsI32(t, j + 1, positive, result * 10 + x)
             ELSE IF result < -(I32_MAX \div 10) \/ result * 10 < I32_MIN + x
                  THEN [ok |-> FALSE, n |-> 0, err |-> "NegOverflow"]
                  ELSE ParseDigitsI32(t, j + 1, positive, result * 10 - x)

ParseI32Broken(t) ==
    IF t = <<>> THEN [ok |-> FALSE, n |-> 0, err |-> "Empty"]
    ELSE IF t \in {<<B_plus>>, <<B_minus>>}
         THEN [ok |-> FALSE, n |-> 0, err |-> "InvalidDigit"]
    ELSE IF t[1] = B_minus
         THEN LET m == ParseDigitsI32(t, 2, TRUE, 0)
              IN  IF m.ok THEN [m EXCEPT !.n = -m.n] ELSE m
    ELSE IF t[1] = B_plus THEN ParseDigitsI32(t, 2, TRUE, 0)
    ELSE ParseDigitsI32(t, 1, TRUE, 0)

ParseI32(t) ==
    IF t = <<>> THEN [ok |-> FALSE, n |-> 0, err |-> "Empty"]
    ELSE IF t \in {<<B_plus>>, <<B_minus>>}
         THEN [ok |-> FALSE, n |-> 0, err |-> "InvalidDigit"]
    ELSE IF t[1] = B_plus THEN ParseDigitsI32(t, 2, TRUE, 0)
    ELSE IF t[1] = B_minus THEN ParseDigitsI32(t, 2, FALSE, 0)
    ELSE ParseDigitsI32(t, 1, TRUE, 0)

(* String::from_utf8: whether the bytes from position j on are valid UTF-8. *)
IsCont(t, j) == j <= Len(t) /\ t[j] >= 128 /\ t[j] <= 191
InRange(t, j, lo, hi) == j <= Len(t) /\ t[j] >= lo /\ t[j] <= hi

RECURSIVE IsUtf8From(_, _)
IsUtf8From(t, j) ==
    IF j > Len(t) THEN TRUE
    ELSE LET c == t[j]
         IN  IF c <= 127 THEN IsUtf8From(t, j + 1)
             ELSE IF c >= 194 /\ c <= 223
                  THEN IsCont(t, j + 1) /\ IsUtf8From(t, j + 2)
             ELSE IF c >= 224 /\ c <= 239
                  THEN /\ CASE c = 224 -> InRange(t, j + 1, 160, 191)
                            [] c = 237 -> InRange(t, j + 1, 128, 159)
                            [] OTHER -> IsCont(t, j + 1)
                       /\ IsCont(t, j + 2)
                       /\ IsUtf8From(t, j + 3)
             ELSE IF c >= 240 /\ c <= 244
                  THEN /\ CASE c = 240 -> InRange(t, j + 1, 144, 191)
                            [] c = 244 -> InRange(t, j + 1, 128, 143)
                            [] OTHER -> IsCont(t, j + 1)
                       /\ IsCont(t, j + 2)
                       /\ IsCont(t, j + 3)
                       /\ IsUtf8From(t, j + 4)
             ELSE FALSE

IsUtf8(t) == IsUtf8From(t, 1)

(* Ord of String and of [u8]: lexicographic by byte, a proper prefix first. *)
RECURSIVE BytesLessFrom(_, _, _)
BytesLessFrom(a, b, j) ==
    IF j > Len(b) THEN FALSE
    ELSE IF j > Len(a) THEN TRUE
    ELSE IF a[j] # b[j] THEN a[j] < b[j]
    ELSE BytesLessFrom(a, b, j + 1)

BytesLess(a, b) == BytesLessFrom(a, b, 1)

(* BTreeMap::insert: replaces the value of an equal key, else inserts the   *)
(* entry at its place in key order.                                        *)
RECURSIVE MapInsertFrom(_, _, _, _)
MapInsertFrom(map, j, k, v) ==
    IF j > Len(map) THEN Append(map, [k |-> k, v |-> v])
    ELSE IF map[j].k = k THEN [map EXCEPT ![j] = [k |-> k, v |-> v]]
    ELSE IF BytesLess(k, map[j].k)
         THEN SubSeq(map, 1, j - 1) \o <<[k |-> k, v |-> v]>> \o SubSeq(map, j, Len(map))
    ELSE MapInsertFrom(map, j + 1, k, v)

MapInsert(map, k, v) == MapInsertFrom(map, 1, k, v)

----------------------------------------------------------------------------
(* The decoder.  Every production takes the input s and the position p of   *)
(* the cursor and returns Ok(value, position after it) or an error.         *)

RECURSIVE ReadNum(_, _, _, _)
(* The loop of parse_number: collects digits and at most one sign up to 'e' *)
ReadNum(s, p, symb, num) ==
    LET v == Peek(s, p)
    IN  IF v = NoByte THEN [st |-> "DataException", num |-> num, pos |-> p]
        ELSE IF IsDigit(v) THEN ReadNum(s, p + 1, symb, Append(num, v))
        ELSE IF v = B_plus \/ v = B_minus
             THEN IF symb THEN [st |-> "SyntaxError", num |-> num, pos |-> p + 1]
                  ELSE ReadNum(s, p + 1, TRUE, Append(num, v))
        ELSE IF v = B_e THEN [st |-> "Ok", num |-> num, pos |-> p + 1]
        ELSE [st |-> "SyntaxError", num |-> num, pos |-> p + 1]

parse_number(s, p) ==
    LET cv == Peek(s, p)
    IN  IF cv = NoByte THEN Err("DataException")
        ELSE IF cv # B_i THEN Err("SyntaxError")
        ELSE LET r == ReadNum(s, p + 1, FALSE, <<>>)
             IN  IF r.st # "Ok" THEN Err(r.st)
                 ELSE IF ~IsUtf8(r.num) THEN ParseFailure("FromUtf8Error")
                 ELSE LET n == ParseI32(r.num)
                      IN  IF n.ok THEN Ok(Number(n.n), r.pos)
                          ELSE ParseFailure(n.err)

RECURSIVE ReadLen(_, _, _)
(* The first loop of parse_string: len = len * 10 + digit up to ':'.        *)
ReadLen(s, p, len) ==
    LET v == Peek(s, p)
    IN  IF v = NoByte THEN [st |-> "DataException", len |-> len, pos |-> p]
        ELSE IF IsDigit(v)
             THEN LET m == UsizeMulAdd(len, v - B_0)
                  IN  IF m.overflow /\ overflow_checks
                      THEN [st |-> "Panic", len |-> len, pos |-> p + 1]
                      ELSE ReadLen(s, p + 1, m.word)
        ELSE IF v = B_colon THEN [st |-> "Ok", len |-> len, pos |-> p + 1]
        ELSE [st |-> "SyntaxError", len |-> len, pos |-> p + 1]

RECURSIVE ReadPayload(_, _, _, _, _)
(* The second loop of parse_string: while i < len, push the next byte.      *)
ReadPayload(s, p, i, len, bstr) ==
    IF ~UsizeLess(i, len) THEN Ok(BString(bstr), p)
    ELSE IF Peek(s, p) = NoByte THEN Err("DataException")
    ELSE ReadPayload(s, p + 1, i + 1, len, Append(bstr, s[p]))

parse_string(s, p) ==
    LET r == ReadLen(s, p, UsizeZero)
    IN  IF r.st = "Panic" THEN Panic
        ELSE IF r.st # "Ok" THEN Err(r.st)
        ELSE ReadPayload(s, r.pos, 0, r.len, <<>>)

RECURSIVE parse_data(_, _)
RECURSIVE ListLoop(_, _, _)
RECURSIVE DictLoop(_, _, _)

(* The loop of parse_list: 'e' ends the list, anything else is an element.  *)
ListLoop(s, p, list) ==
    LET c == Peek(s, p)
    IN  IF c = NoByte THEN Err("DataException")
        ELSE IF c = B_e THEN Ok(List(list), p + 1)
        ELSE LET v == parse_data(s, p)
             IN  IF v.st = "Ok" THEN ListLoop(s, v.pos, Append(list, v.val))
                 ELSE v

parse_list(s, p) ==
    LET c == Peek(s, p)
    IN  IF c = NoByte THEN Err("DataException")
        ELSE IF c # B_l THEN Err("SyntaxError")
        ELSE ListLoop(s, p + 1, <<>>)

(* The loop of parse_dict: 'e' ends the dictionary; anything else is read   *)
(* by parse_string as a key, and the value is parsed and inserted only if   *)
(* the key is valid UTF-8.                                                  *)
DictLoop(s, p, map) ==
    LET c == Peek(s, p)
    IN  IF c = NoByte THEN Err("DataException")
        ELSE IF c = B_e THEN Ok(Dict(map), p + 1)
        ELSE LET key == parse_string(s, p)
             IN  IF key.st # "Ok" THEN key
                 ELSE IF key.val.tag # "BString" THEN Err("SyntaxError")
                 ELSE IF IsUtf8(key.val.b)
                      THEN LET v == parse_data(s, key.pos)
                           IN  IF v.st = "Ok"
                               THEN DictLoop(s, v.pos, MapInsert(map, key.val.b, v.val))
                               ELSE v
                      ELSE DictLoop(s, key.pos, map)

parse_dict(s, p) ==
    LET c == Peek(s, p)
    IN  IF c = NoByte THEN Err("DataException")
        ELSE IF c # B_d THEN Err("SyntaxError")
        ELSE DictLoop(s, p + 1, <<>>)

(* Dispatch on the lookahead byte.                                          *)
parse_data(s, p) ==
    LET c == Peek(s, p)
    IN  IF c = NoByte THEN Err("DataException")
        ELSE IF IsDigit(c) THEN parse_string(s, p)
        ELSE IF c = B_i THEN parse_number(s, p)
        ELSE IF c = B_l THEN parse_list(s, p)
        ELSE IF c = B_d THEN parse_dict(s, p)
        ELSE Err("SyntaxError")

(* parse returns the result of parse_data from the start of the input; the  *)
(* cursor is dropped.                                                       *)
parse(s) == [parse_data(s, 1) EXCEPT !.pos = 0]

(* Where the cursor of parse stood when parse_data returned Ok (0: error).  *)
parse_cursor(s) == parse_data(s, 1).pos

----------------------------------------------------------------------------
(* The encoder.  A result is [ok, bytes].                                   *)

RECURSIVE FormatNat(_)
(* format!("{}", n) for n >= 0: decimal digits, no leading zeros.           *)
FormatNat(n) ==
    IF n < 10 THEN <<B_0 + n>>
    ELSE Append(FormatNat(n \div 10), B_0 + (n % 10))

(* format!("{}", n) for an i32: '-' and the magnitude for negatives.  The   *)
(* magnitude of i32::MIN is written digit by digit, as it exceeds i32::MAX. *)
FormatI32(n) ==
    IF n >= 0 THEN FormatNat(n)
    ELSE LET last == (10 - (n % 10)) % 10
             rest == -((n + last) \div 10)
         IN  <<B_minus>> \o (IF rest = 0 THEN <<>> ELSE FormatNat(rest))
                         \o <<B_0 + last>>

EncOk(bytes) == [ok |-> TRUE, bytes |-> bytes]

stringify_number(n) == EncOk(<<B_i>> \o FormatI32(n) \o <<B_e>>)

stringify_string(b) == EncOk(FormatNat(Len(b)) \o <<B_colon>> \o b)

RECURSIVE stringify(_)
RECURSIVE ListAll(_, _, _)
RECURSIVE DictAll(_, _, _)

(* The all() closure of stringify_list over the elements from j on:         *)
(* appends each element's bytes, stops at the first failure.                *)
ListAll(l, j, content) ==
    IF j > Len(l) THEN EncOk(content)
    ELSE LET x == stringify(l[j])
         IN  IF x.ok THEN ListAll(l, j + 1, content \o x.bytes)
             ELSE [ok |-> FALSE, bytes |-> <<>>]

stringify_list(l) ==
    LET r == ListAll(l, 1, <<B_l>>)
    IN  IF r.ok THEN EncOk(Append(r.bytes, B_e)) ELSE r

(* The all() closure of stringify_dict over the entries in key order.       *)
DictAll(d, j, content) ==
    IF j > Len(d) THEN EncOk(content)
    ELSE LET key == stringify_string(d[j].k)
         IN  IF ~key.ok THEN [ok |-> FALSE, bytes |-> <<>>]
             ELSE LET value == stringify(d[j].v)
                  IN  IF value.ok
                      THEN DictAll(d, j + 1, content \o key.bytes \o value.bytes)
                      ELSE [ok |-> FALSE, bytes |-> <<>>]

stringify_dict(d) ==
    LET r == DictAll(d, 1, <<B_d>>)
    IN  IF r.ok THEN EncOk(Append(r.bytes, B_e)) ELSE r

stringify(v) ==
    CASE v.tag = "BString" -> stringify_string(v.b)
      [] v.tag = "Number" -> stringify_number(v.n)
      [] v.tag = "List" -> stringify_list(v.l)
      [] v.tag = "Dict" -> stringify_dict(v.d)

----------------------------------------------------------------------------
(* Inputs.  A document tree is a value written in wire order: its           *)
(* dictionaries are sequences of entries [k, v] in the order they appear on *)
(* the wire, with arbitrary byte strings as keys.                           *)

MaxDocLen == 2
MaxRawLen == 5
MaxKeyPosLen == 4
MaxNumBodyLen == 3
MaxEncLen == 2

SeqsUpTo(S, n) == UNION {[1..m -> S] : m \in 0..n}

RECURSIVE Decimal(_)
(* The minimal decimal form of a natural number.                            *)
Decimal(n) == IF n < 10 THEN <<48 + n>> ELSE Decimal(n \div 10) \o <<48 + (n % 10)>>

RECURSIVE Wire(_)
RECURSIVE WireAll(_, _)
RECURSIVE WirePairs(_, _)
WireAll(l, j) == IF j > Len(l) THEN <<>> ELSE Wire(l[j]) \o WireAll(l, j + 1)
WirePairs(d, j) ==
    IF j > Len(d) THEN <<>>
    ELSE Decimal(Len(d[j].k)) \o <<58>> \o d[j].k \o Wire(d[j].v) \o WirePairs(d, j + 1)

(* The Bencode text of a document tree, entries in the order given.         *)
Wire(t) ==
    CASE t.tag = "BString" -> Decimal(Len(t.b)) \o <<58>> \o t.b
      [] t.tag = "Number" ->
           <<105>> \o (IF t.n < 0 THEN <<45>> \o Decimal(-t.n) ELSE Decimal(t.n)) \o <<101>>
      [] t.tag = "List" -> <<108>> \o WireAll(t.l, 1) \o <<101>>
      [] t.tag = "Dict" -> <<100>> \o WirePairs(t.d, 1) \o <<101>>

(* Keys "a", "b" and the single byte 0xFF, which is not UTF-8.              *)
DocKeys == {<<97>>, <<98>>, <<255>>}
DocLeaves == {BString(<<97>>), BString(<<98>>), BString(<<254>>), Number(0), Number(-42)}
DocInner == {List(<<>>), List(<<Number(7)>>), Dict(<<>>),
             Dict(<<[k |-> <<97>>, v |-> Number(7)]>>)}
DocPairs == {[k |-> k, v |-> v] : k \in DocKeys, v \in DocLeaves \cup DocInner}
DocTrees ==
    DocLeaves
    \cup {List(l) : l \in SeqsUpTo(DocLeaves \cup DocInner, MaxDocLen)}
    \cup {Dict(d) : d \in SeqsUpTo(DocPairs, MaxDocLen)}

RECURSIVE UniqueKeys(_)
(* Every dictionary of the tree has pairwise distinct keys.                 *)
UniqueKeys(t) ==
    CASE t.tag = "List" -> \A j \in 1..Len(t.l) : UniqueKeys(t.l[j])
      [] t.tag = "Dict" ->
           /\ \A j, m \in 1..Len(t.d) : j # m => t.d[j].k # t.d[m].k
           /\ \A j \in 1..Len(t.d) : UniqueKeys(t.d[j].v)
      [] OTHER -> TRUE

Tails == {<<>>, <<101>>, <<49, 58, 97>>, <<105>>}

(* Raw inputs: every short string over the grammar's bytes, every short     *)
(* string in dictionary key position, every short integer body, and         *)
(* integers and length prefixes around the limits of i32 and usize.         *)
RawAlphabet == {48, 49, 58, 105, 108, 100, 101, 45, 43}
KeyPosAlphabet == {48, 49, 58, 105, 101, 97}
NumAlphabet == {48, 49, 57, 45, 43, 46}

Ascii(ds) == [j \in 1..Len(ds) |-> 48 + ds[j]]
Dec_I32Max == Ascii(<<2, 1, 4, 7, 4, 8, 3, 6, 4, 7>>)
Dec_I32MaxPlus1 == Ascii(<<2, 1, 4, 7, 4, 8, 3, 6, 4, 8>>)
Dec_I32MaxPlus2 == Ascii(<<2, 1, 4, 7, 4, 8, 3, 6, 4, 9>>)
Dec_I64Max == Ascii(<<9, 2, 2, 3, 3, 7, 2, 0, 3, 6, 8, 5, 4, 7, 7, 5, 8, 0, 7>>)
Dec_UsizeMax == Ascii(<<1, 8, 4, 4, 6, 7, 4, 4, 0, 7, 3, 7, 0, 9, 5, 5, 1, 6, 1, 5>>)
Dec_UsizeMaxPlus1 == Ascii(<<1, 8, 4, 4, 6, 7, 4, 4, 0, 7, 3, 7, 0, 9, 5, 5, 1, 6, 1, 6>>)
Dec_UsizeMaxPlus3 == Ascii(<<1, 8, 4, 4, 6, 7, 4, 4, 0, 7, 3, 7, 0, 9, 5, 5, 1, 6, 1, 8>>)
Dec_LongZeros == Ascii(<<0, 0, 0, 0, 0, 0, 0, 0, 0, 0, 0, 0, 0, 0, 0, 0, 0, 0, 0, 0, 0, 0, 2>>)

LimitNumbers ==
    {<<105>> \o sign \o m \o <<101>> :
        sign \in {<<>>, <<45>>},
        m \in {Dec_I32Max, Dec_I32MaxPlus1, Dec_I32MaxPlus2, Dec_I64Max,
               <<48, 48>> \o Dec_I32Max}}

LimitStrings ==
    {n \o <<58>> \o payload :
        n \in {Dec_UsizeMax, Dec_UsizeMaxPlus1, Dec_UsizeMaxPlus3, Dec_LongZeros,
               <<51>>, <<48, 51>>},
        payload \in {<<>>, <<97, 98>>, <<97, 98, 99>>, <<97, 98, 99, 100>>}}

RawInputs ==
    SeqsUpTo(RawAlphabet, MaxRawLen)
    \cup {<<100>> \o x : x \in SeqsUpTo(KeyPosAlphabet, MaxKeyPosLen)}
    \cup {<<105>> \o x \o <<101>> : x \in SeqsUpTo(NumAlphabet, MaxNumBodyLen)}
    \cup LimitNumbers
    \cup LimitStrings

(* Values handed to stringify: strings of any bytes, numbers over the i32   *)
(* range, maps keyed by valid UTF-8 strings ("", "a", "é"), nested.         *)
EncStrings == {<<>>, <<255>>, <<97, 98, 99, 100, 101, 102, 103, 104, 105, 106>>}
EncNumbers == {I32_MIN, -1, 0, 7, I32_MAX}
EncKeys == {<<>>, <<97>>, <<195, 169>>}
EncLeaves == {BString(b) : b \in EncStrings} \cup {Number(n) : n \in EncNumbers}

RECURSIVE MapOf(_, _)
(* The BTreeMap built by inserting the first j pairs of ps in turn.         *)
MapOf(ps, j) == IF j = 0 THEN <<>> ELSE MapInsert(MapOf(ps, j - 1), ps[j][1], ps[j][2])

EncDicts(V) == {Dict(MapOf(ps, Len(ps))) : ps \in SeqsUpTo(EncKeys \X V, MaxEncLen)}
EncLists(V) == {List(l) : l \in SeqsUpTo(V, MaxEncLen)}
EncLevel1 == EncLists(EncLeaves) \cup EncDicts(EncLeaves)
EncLevel2 ==
    {List(<<x>>) : x \in EncLevel1}
    \cup {Dict(<<[k |-> k, v |-> x]>>) : k \in EncKeys, x \in EncLevel1}
EncValues == EncLeaves \cup EncLevel1 \cup EncLevel2

----------------------------------------------------------------------------
(* The state machine: a caller holds bytes and calls parse, then stringify  *)
(* on the parsed value; or holds a value and calls stringify, parse and     *)
(* stringify again.                                                         *)

NoEnc == [ok |-> FALSE, bytes |-> <<>>]
NoRes == [st |-> "None", val |-> NoVal, err |-> "", pos |-> 0]

InitCommon ==
    /\ overflow_checks \in BOOLEAN
    /\ enc = NoEnc
    /\ res = NoRes
    /\ cur = 0
    /\ enc2 = NoEnc

Init ==
    /\ InitCommon
    /\ data = NoVal
    /\ pc = "ready"
    /\ \/ /\ kind = "raw"
          /\ doc = NoVal
          /\ tail = <<>>
          /\ src \in RawInputs
       \/ /\ kind = "doc"
          /\ doc \in DocTrees
          /\ tail \in Tails
          /\ src = Wire(doc) \o tail
       \/ /\ kind = "prefix"
          /\ doc \in {t \in DocTrees : UniqueKeys(t)}
          /\ tail = <<>>
          /\ \E n \in 0..(Len(Wire(doc)) - 1) : src = SubSeq(Wire(doc), 1, n)

InitEnc ==
    /\ InitCommon
    /\ kind = "value"
    /\ doc = NoVal
    /\ tail = <<>>
    /\ data \in EncValues
    /\ src = <<>>
    /\ pc = "start"

Encode ==
    /\ pc = "start"
    /\ enc' = stringify(data)
    /\ src' = enc'.bytes
    /\ pc' = IF enc'.ok THEN "ready" ELSE "failed"
    /\ UNCHANGED <<overflow_checks, kind, doc, tail, data, res, cur, enc2>>

Parse ==
    /\ pc = "ready"
    /\ res' = parse(src)
    /\ cur' = parse_cursor(src)
    /\ pc' = "parsed"
    /\ UNCHANGED <<overflow_checks, kind, doc, tail, data, enc, src, enc2>>

Stringify ==
    /\ pc = "parsed"
    /\ res.st = "Ok"
    /\ enc2' = stringify(res.val)
    /\ pc' = "done"
    /\ UNCHANGED <<overflow_checks, kind, doc, tail, data, enc, src, res, cur>>

Next == Parse \/ Stringify
NextEnc == Encode \/ Parse \/ Stringify

Spec == Init /\ [][Next]_vars
SpecEnc == InitEnc /\ [][NextEnc]_vars

----------------------------------------------------------------------------
(* What the format says a document decodes to: a dictionary holds each      *)
(* distinct key once, in ascending key order, with the decoded value of the *)
(* key's last occurrence.                                                   *)

RECURSIVE SortEntries(_)
(* The entries of a set with pairwise distinct keys, in ascending key order *)
SortEntries(S) ==
    IF S = {} THEN <<>>
    ELSE LET least == CHOOSE x \in S : \A y \in S : y.k = x.k \/ BytesLess(x.k, y.k)
         IN  <<least>> \o SortEntries(S \ {least})

RECURSIVE Decoded(_)
Decoded(t) ==
    CASE t.tag = "List" -> List([j \in 1..Len(t.l) |-> Decoded(t.l[j])])
      [] t.tag = "Dict" ->
           LET last == {j \in 1..Len(t.d) : \A m \in (j + 1)..Len(t.d) : t.d[m].k # t.d[j].k}
           IN  Dict(SortEntries({[k |-> t.d[j].k, v |-> Decoded(t.d[j].v)] : j \in last}))
      [] OTHER -> t

(* A canonical document: every dictionary's keys strictly ascending.        *)
Canonical(t) == UniqueKeys(t) /\ Decoded(t) = t

HasNonUtf8Key(t) == t.tag = "Dict" /\ \E j \in 1..Len(t.d) : ~IsUtf8(t.d[j].k)

(* The body of an integer token i<body>e: the bytes between the 'i' and the *)
(* first 'e' (or the end of the input).                                     *)
HasE(s) == \E j \in 2..Len(s) : s[j] = 101
BodyEnd(s) == IF HasE(s) THEN (CHOOSE j \in 2..Len(s) : s[j] = 101 /\ \A m \in 2..(j - 1) : s[m] # 101) - 1
              ELSE Len(s)
Body(s) == SubSeq(s, 2, BodyEnd(s))

IsDec(c) == c \in 48..57

(* body = optional single leading '-' followed by one or more digits.       *)
IntBodyOk(b) ==
    /\ Len(b) >= 1
    /\ IF b[1] = 45 THEN Len(b) >= 2 /\ \A j \in 2..Len(b) : IsDec(b[j])
       ELSE \A j \in 1..Len(b) : IsDec(b[j])

RECURSIVE StripZeros(_)
StripZeros(ds) == IF Len(ds) > 1 /\ ds[1] = 48 THEN StripZeros(Tail(ds)) ELSE ds

(* a > b for two decimal digit strings without leading zeros.               *)
DecGreater(a, b) == Len(a) > Len(b) \/ (Len(a) = Len(b) /\ BytesLess(b, a))

(* The value of a well-formed body lies outside -2^31 .. 2^31 - 1.          *)
OutOfRange(b) ==
    IF b[1] = 45 THEN DecGreater(StripZeros(Tail(b)), Dec_I32MaxPlus1)
    ELSE DecGreater(StripZeros(b), Dec_I32Max)

IsIntToken(s) == Len(s) >= 1 /\ s[1] = 105

(* The run of digits an input starts with.                                  *)
RECURSIVE DigitRun(_, _)
DigitRun(s, j) == IF j <= Len(s) /\ IsDec(s[j]) THEN <<s[j]>> \o DigitRun(s, j + 1) ELSE <<>>

IsStringToken(s) ==
    LET n == Len(DigitRun(s, 1)) IN n >= 1 /\ n < Len(s) /\ s[n + 1] = 58

----------------------------------------------------------------------------
(* C1: round trip on canonical input: parse succeeds on every canonical     *)
(* document (keys arbitrary byte strings, unique and ascending) and         *)
(* stringify of the parsed value returns exactly the document.              *)
C1_RoundTripCanonical ==
    (kind = "doc" /\ tail = <<>> /\ Canonical(doc)) =>
        /\ pc # "ready" => res.st = "Ok"
        /\ pc = "done" => enc2.ok /\ enc2.bytes = src

(* C2: canonicalization: for every valid dictionary document with unique    *)
(* keys in any order, stringify(parse(D)) is the document with its entries  *)
(* sorted ascending by key.                                                 *)
C2_Canonicalization ==
    (kind = "doc" /\ tail = <<>> /\ doc.tag = "Dict" /\ UniqueKeys(doc)) =>
        /\ pc # "ready" => res.st = "Ok"
        /\ pc = "done" => enc2.ok /\ enc2.bytes = Wire(Decoded(doc))

(* C3: idempotence of encode: for every BData value v, stringify(v)         *)
(* succeeds, parse of it succeeds, and stringify of the parsed value equals *)
(* stringify(v).                                                            *)
C3_EncodeIdempotent ==
    kind = "value" =>
        /\ pc # "start" => enc.ok /\ pc # "failed"
        /\ pc \in {"parsed", "done"} => res.st = "Ok"
        /\ pc = "done" => enc2.ok /\ enc2.bytes = enc.bytes

(* C3 witness: a dictionary holding i32::MIN went through stringify, parse  *)
(* and stringify again.                                                     *)
C3_Witness ==
    /\ kind = "value"
    /\ pc = "done"
    /\ data.tag = "Dict"
    /\ \E j \in 1..Len(data.d) : data.d[j].v = Number(I32_MIN)
    /\ Len(data.d) >= 2

(* C4: trailing input is not an error: for a complete valid encoding V and  *)
(* any bytes T, parse(V ++ T) succeeds, returns what parse(V) returns, and  *)
(* the cursor stops right after V.                                          *)
C4_TrailingInput ==
    (kind = "doc" /\ UniqueKeys(doc) /\ pc # "ready") =>
        /\ res.st = "Ok"
        /\ res = parse(Wire(doc))
        /\ cur = Len(Wire(doc)) + 1

(* C5: integer grammar: parse accepts i<body>e only when body is an         *)
(* optional single leading '-' followed by one or more digits, and not "-0" *)
C5_IntegerGrammar ==
    (kind = "raw" /\ IsIntToken(src) /\ pc # "ready" /\ res.st = "Ok") =>
        /\ IntBodyOk(Body(src))
        /\ Body(src) # <<45, 48>>

(* C6: parse returns ParseFailure for an integer token exactly when the     *)
(* token is well formed and its value is outside the i32 range.             *)
C6_RangeFailureDistinct ==
    (kind = "raw" /\ IsIntToken(src) /\ pc # "ready") =>
        (res.st = "ParseFailure"
            <=> (HasE(src) /\ IntBodyOk(Body(src)) /\ OutOfRange(Body(src))))

(* C7: truncated input: parse of every proper prefix of a valid document    *)
(* fails with DataException.                                                *)
C7_TruncatedInput ==
    (kind = "prefix" /\ pc # "ready") => res.st = "DataException"

(* C8: dictionary decoding keeps every pair: when parse succeeds on a       *)
(* dictionary, the result holds exactly the distinct keys, each with the    *)
(* decoded value of its last occurrence.                                    *)
C8_DictKeepsEveryPair ==
    (kind = "doc" /\ doc.tag = "Dict" /\ pc # "ready" /\ res.st = "Ok") =>
        res.val = Decoded(doc)

(* C9: no abort and exact length: parse never aborts, and the payload of a  *)
(* parsed byte string has exactly the declared decimal length.              *)
C9_NoAbortExactLength ==
    (kind = "raw" /\ pc # "ready") =>
        /\ res.st \in {"Ok", "SyntaxError", "DataException", "ParseFailure"}
        /\ (IsStringToken(src) /\ res.st = "Ok") =>
               Decimal(Len(res.val.b)) = StripZeros(DigitRun(src, 1))

(* C10: a byte string needs digits in dictionary key position too: a        *)
(* dictionary whose key position starts with a byte that is neither a digit *)
(* nor 'e' is rejected.                                                     *)
C10_KeyNeedsDigits ==
    (kind = "raw" /\ pc # "ready" /\ Len(src) >= 2 /\ src[1] = 100
        /\ ~IsDec(src[2]) /\ src[2] # 101) =>
        res.st # "Ok"

============================================================================
